---- MODULE Spec2Model ----
(***************************************************************************)
(* Model of the Sora API relay: cf-worker-proxy.js, cf-worker-upload.js    *)
(* and supabase-edge-proxy.ts.                                             *)
(*                                                                         *)
(* JavaScript strings are sequences of one-character strings, so that      *)
(* toUpperCase, toLowerCase, endsWith, atob, JSON.parse and JSON.stringify *)
(* are computed character by character.  JavaScript values are tagged      *)
(* records; an object is the sequence of its own properties in insertion   *)
(* order.                                                                  *)
(***************************************************************************)
EXTENDS Integers, Sequences, FiniteSets, TLC

(***************************************************************************)
(* JavaScript values                                                       *)
(***************************************************************************)
Undefined == [t |-> "undefined"]
Null == [t |-> "null"]
Str(s) == [t |-> "str", s |-> s]
Num(n) == [t |-> "num", n |-> n]
Bool(b) == [t |-> "bool", b |-> b]
Arr(a) == [t |-> "arr", a |-> a]
Obj(o) == [t |-> "obj", o |-> o]
Prop(k, v) == [k |-> k, v |-> v]

\* ToBoolean: !x is ~Truthy(x)
Truthy(x) ==
    CASE x.t = "undefined" -> FALSE
      [] x.t = "null" -> FALSE
      [] x.t = "str" -> Len(x.s) > 0
      [] x.t = "num" -> x.n # 0
      [] x.t = "bool" -> x.b
      [] OTHER -> TRUE

HasProp(o, k) == \E i \in 1..Len(o) : o[i].k = k

\* property read x[k]; a read on a primitive or of a missing property is undefined
Get(x, k) ==
    IF x.t = "obj" /\ HasProp(x.o, k)
    THEN x.o[CHOOSE i \in 1..Len(x.o) : x.o[i].k = k].v
    ELSE Undefined

\* property write o[k] = v on an object: replaces in place or appends
Put(o, k, v) ==
    IF HasProp(o, k)
    THEN [i \in 1..Len(o) |-> IF o[i].k = k THEN Prop(k, v) ELSE o[i]]
    ELSE Append(o, Prop(k, v))

(***************************************************************************)
(* Characters                                                              *)
(***************************************************************************)
UpperChars == <<"A","B","C","D","E","F","G","H","I","J","K","L","M",
                "N","O","P","Q","R","S","T","U","V","W","X","Y","Z">>
LowerChars == <<"a","b","c","d","e","f","g","h","i","j","k","l","m",
                "n","o","p","q","r","s","t","u","v","w","x","y","z">>
DigitChars == <<"0","1","2","3","4","5","6","7","8","9">>

IndexOf(seq, c) == CHOOSE i \in 1..Len(seq) : seq[i] = c
IsIn(seq, c) == \E i \in 1..Len(seq) : seq[i] = c

toLowerCase(s) ==
    [i \in 1..Len(s) |->
        IF IsIn(UpperChars, s[i]) THEN LowerChars[IndexOf(UpperChars, s[i])] ELSE s[i]]

toUpperCase(s) ==
    [i \in 1..Len(s) |->
        IF IsIn(LowerChars, s[i]) THEN UpperChars[IndexOf(LowerChars, s[i])] ELSE s[i]]

endsWith(s, suffix) ==
    /\ Len(suffix) <= Len(s)
    /\ SubSeq(s, Len(s) - Len(suffix) + 1, Len(s)) = suffix

RECURSIVE NatToStr(_)
NatToStr(n) ==
    IF n < 10 THEN <<DigitChars[n + 1]>>
    ELSE NatToStr(n \div 10) \o <<DigitChars[(n % 10) + 1]>>

NumToStr(n) == IF n < 0 THEN <<"-">> \o NatToStr(0 - n) ELSE NatToStr(n)

(***************************************************************************)
(* JSON.stringify                                                          *)
(***************************************************************************)
RECURSIVE QuoteChars(_)
QuoteChars(s) ==
    IF s = <<>> THEN <<>>
    ELSE (IF Head(s) = "\"" \/ Head(s) = "\\" THEN <<"\\", Head(s)>> ELSE <<Head(s)>>)
         \o QuoteChars(Tail(s))

Quote(s) == <<"\"">> \o QuoteChars(s) \o <<"\"">>

RECURSIVE JSONstringify(_)
RECURSIVE StringifyElems(_, _)
RECURSIVE StringifyProps(_, _)

StringifyElems(a, i) ==
    IF i > Len(a) THEN <<>>
    ELSE (IF i > 1 THEN <<",">> ELSE <<>>) \o JSONstringify(a[i]) \o StringifyElems(a, i + 1)

StringifyProps(o, i) ==
    IF i > Len(o) THEN <<>>
    ELSE (IF i > 1 THEN <<",">> ELSE <<>>) \o Quote(o[i].k) \o <<":">>
         \o JSONstringify(o[i].v) \o StringifyProps(o, i + 1)

JSONstringify(x) ==
    CASE x.t = "null" -> <<"n","u","l","l">>
      [] x.t = "bool" -> IF x.b THEN <<"t","r","u","e">> ELSE <<"f","a","l","s","e">>
      [] x.t = "num" -> NumToStr(x.n)
      [] x.t = "str" -> Quote(x.s)
      [] x.t = "arr" -> <<"[">> \o StringifyElems(x.a, 1) \o <<"]">>
      [] x.t = "obj" -> <<"{">> \o StringifyProps(x.o, 1) \o <<"}">>

(***************************************************************************)
(* JSON.parse (integers, strings with the escapes \" and \\, literals,     *)
(* arrays, objects, insignificant whitespace)                              *)
(***************************************************************************)
ParseFail == [ok |-> FALSE]
ParseOk(v, i) == [ok |-> TRUE, v |-> v, i |-> i]

IsWs(c) == c = " " \/ c = "\n" \/ c = "\t" \/ c = "\r"

RECURSIVE SkipWs(_, _)
SkipWs(t, i) == IF i <= Len(t) /\ IsWs(t[i]) THEN SkipWs(t, i + 1) ELSE i

StartsAt(t, i, lit) ==
    /\ i + Len(lit) - 1 <= Len(t)
    /\ SubSeq(t, i, i + Len(lit) - 1) = lit

RECURSIVE ParseDigits(_, _, _)
\* reads the digits from position i on; acc is the value so far
ParseDigits(t, i, acc) ==
    IF i <= Len(t) /\ IsIn(DigitChars, t[i])
    THEN ParseDigits(t, i + 1, acc * 10 + (IndexOf(DigitChars, t[i]) - 1))
    ELSE [n |-> acc, i |-> i]

ParseNumber(t, i) ==
    LET neg == t[i] = "-"
        j == IF neg THEN i + 1 ELSE i
    IN  IF j > Len(t) \/ ~IsIn(DigitChars, t[j]) THEN ParseFail
        ELSE IF t[j] = "0"
             THEN (IF j + 1 <= Len(t) /\ IsIn(DigitChars, t[j + 1]) THEN ParseFail
                   ELSE ParseOk(Num(0), j + 1))
             ELSE LET d == ParseDigits(t, j, 0)
                  IN  ParseOk(Num(IF neg THEN 0 - d.n ELSE d.n), d.i)

RECURSIVE ParseChars(_, _, _)
\* reads a string body from position i on (after the opening quote)
ParseChars(t, i, acc) ==
    IF i > Len(t) THEN ParseFail
    ELSE IF t[i] = "\"" THEN ParseOk(acc, i + 1)
    ELSE IF t[i] = "\n" \/ t[i] = "\t" \/ t[i] = "\r" THEN ParseFail
    ELSE IF t[i] = "\\"
         THEN (IF i + 1 <= Len(t) /\ (t[i + 1] = "\"" \/ t[i + 1] = "\\")
               THEN ParseChars(t, i + 2, Append(acc, t[i + 1]))
               ELSE ParseFail)
         ELSE ParseChars(t, i + 1, Append(acc, t[i]))

RECURSIVE ParseValue(_, _)
RECURSIVE ParseElems(_, _, _)
RECURSIVE ParseProps(_, _, _)

\* elements of an array from position i on; acc holds the elements read
ParseElems(t, i, acc) ==
    LET r == ParseValue(t, i)
    IN  IF ~r.ok THEN ParseFail
        ELSE LET j == SkipWs(t, r.i)
             IN  IF j > Len(t) THEN ParseFail
                 ELSE IF t[j] = "]" THEN ParseOk(Arr(Append(acc, r.v)), j + 1)
                 ELSE IF t[j] = "," THEN ParseElems(t, j + 1, Append(acc, r.v))
                 ELSE ParseFail

\* members of an object from position i on; acc holds the members read
ParseProps(t, i, acc) ==
    LET k0 == SkipWs(t, i)
    IN  IF k0 > Len(t) \/ t[k0] # "\"" THEN ParseFail
        ELSE LET k == ParseChars(t, k0 + 1, <<>>)
             IN  IF ~k.ok THEN ParseFail
                 ELSE LET c == SkipWs(t, k.i)
                      IN  IF c > Len(t) \/ t[c] # ":" THEN ParseFail
                          ELSE LET r == ParseValue(t, c + 1)
                               IN  IF ~r.ok THEN ParseFail
                                   ELSE LET j == SkipWs(t, r.i)
                                            o == Put(acc, k.v, r.v)
                                        IN  IF j > Len(t) THEN ParseFail
                                            ELSE IF t[j] = "}" THEN ParseOk(Obj(o), j + 1)
                                            ELSE IF t[j] = "," THEN ParseProps(t, j + 1, o)
                                            ELSE ParseFail

ParseValue(t, i0) ==
    LET i == SkipWs(t, i0)
    IN  IF i > Len(t) THEN ParseFail
        ELSE IF t[i] = "{"
             THEN (LET j == SkipWs(t, i + 1)
                   IN  IF j <= Len(t) /\ t[j] = "}" THEN ParseOk(Obj(<<>>), j + 1)
                       ELSE ParseProps(t, i + 1, <<>>))
        ELSE IF t[i] = "["
             THEN (LET j == SkipWs(t, i + 1)
                   IN  IF j <= Len(t) /\ t[j] = "]" THEN ParseOk(Arr(<<>>), j + 1)
                       ELSE ParseElems(t, i + 1, <<>>))
        ELSE IF t[i] = "\""
             THEN (LET s == ParseChars(t, i + 1, <<>>)
                   IN  IF s.ok THEN ParseOk(Str(s.v), s.i) ELSE ParseFail)
        ELSE IF t[i] = "-" \/ IsIn(DigitChars, t[i]) THEN ParseNumber(t, i)
        ELSE IF StartsAt(t, i, <<"t","r","u","e">>) THEN ParseOk(Bool(TRUE), i + 4)
        ELSE IF StartsAt(t, i, <<"f","a","l","s","e">>) THEN ParseOk(Bool(FALSE), i + 5)
        ELSE IF StartsAt(t, i, <<"n","u","l","l">>) THEN ParseOk(Null, i + 4)
        ELSE ParseFail

\* JSON.parse(text): [ok |-> TRUE, v |-> value], or [ok |-> FALSE] for a SyntaxError
JSONparse(text) ==
    LET r == ParseValue(text, 1)
    IN  IF r.ok /\ SkipWs(text, r.i) > Len(text) THEN [ok |-> TRUE, v |-> r.v]
        ELSE [ok |-> FALSE]

(***************************************************************************)
(* String literals of the source                                           *)
(***************************************************************************)
K_method == <<"m","e","t","h","o","d">>
K_url == <<"u","r","l">>
K_headers == <<"h","e","a","d","e","r","s">>
K_body == <<"b","o","d","y">>
K_image_data == <<"i","m","a","g","e","_","d","a","t","a">>
K_filename == <<"f","i","l","e","n","a","m","e">>
K_token == <<"t","o","k","e","n">>
K_target_url == <<"t","a","r","g","e","t","_","u","r","l">>
K_error == <<"e","r","r","o","r">>
K_message == <<"m","e","s","s","a","g","e">>
K_raw_response == <<"r","a","w","_","r","e","s","p","o","n","s","e">>
K_status == <<"s","t","a","t","u","s">>
K_timestamp == <<"t","i","m","e","s","t","a","m","p">>
S_ok == <<"o","k">>
S_POST == <<"P","O","S","T">>
S_ContentType == <<"C","o","n","t","e","n","t","-","T","y","p","e">>
S_applicationJson == <<"a","p","p","l","i","c","a","t","i","o","n","/","j","s","o","n">>
S_Authorization == <<"A","u","t","h","o","r","i","z","a","t","i","o","n">>
S_Bearer == <<"B","e","a","r","e","r"," ">>
S_UserAgent == <<"U","s","e","r","-","A","g","e","n","t">>
S_SoraAgent == <<"S","o","r","a","/","1",".","2","0","2","6",".","0","0","7"," ","(","A","n","d","r","o","i","d"," ","1","5",";"," ","2","4","1","2","2","R","K","C","7","C",";"," ","b","u","i","l","d"," ","2","6","0","0","7","0","0",")">>
S_MissingProxy == <<"M","i","s","s","i","n","g"," ","r","e","q","u","i","r","e","d"," ","f","i","e","l","d","s",":"," ","m","e","t","h","o","d",","," ","u","r","l">>
S_MissingUpload == <<"M","i","s","s","i","n","g"," ","r","e","q","u","i","r","e","d"," ","f","i","e","l","d","s",":"," ","i","m","a","g","e","_","d","a","t","a",","," ","f","i","l","e","n","a","m","e",","," ","t","o","k","e","n",","," ","t","a","r","g","e","t","_","u","r","l">>
S_ProxyFailed == <<"P","r","o","x","y"," ","r","e","q","u","e","s","t"," ","f","a","i","l","e","d">>
S_UploadFailed == <<"U","p","l","o","a","d"," ","f","a","i","l","e","d">>
S_NotFound == <<"N","o","t"," ","F","o","u","n","d">>
S_png == <<"i","m","a","g","e","/","p","n","g">>
S_jpeg == <<"i","m","a","g","e","/","j","p","e","g">>
S_webp == <<"i","m","a","g","e","/","w","e","b","p">>
S_gif == <<"i","m","a","g","e","/","g","i","f">>
X_jpg == <<".","j","p","g">>
X_jpeg == <<".","j","p","e","g">>
X_webp == <<".","w","e","b","p">>
X_gif == <<".","g","i","f">>
P_proxy == <<"/","p","r","o","x","y">>
P_upload == <<"/","u","p","l","o","a","d">>
P_health == <<"/","h","e","a","l","t","h">>

(***************************************************************************)
(* ToString, as applied by atob(image_data) and by `Bearer ${token}`       *)
(***************************************************************************)
RECURSIVE ToStr(_)
RECURSIVE JoinElems(_, _)

JoinElems(a, i) ==
    IF i > Len(a) THEN <<>>
    ELSE (IF i > 1 THEN <<",">> ELSE <<>>)
         \o (IF a[i].t \in {"null", "undefined"} THEN <<>> ELSE ToStr(a[i]))
         \o JoinElems(a, i + 1)

ToStr(x) ==
    CASE x.t = "str" -> x.s
      [] x.t = "num" -> NumToStr(x.n)
      [] x.t = "bool" -> IF x.b THEN <<"t","r","u","e">> ELSE <<"f","a","l","s","e">>
      [] x.t = "null" -> <<"n","u","l","l">>
      [] x.t = "undefined" -> <<"u","n","d","e","f","i","n","e","d">>
      [] x.t = "arr" -> JoinElems(x.a, 1)
      [] x.t = "obj" -> <<"[","o","b","j","e","c","t"," ","O","b","j","e","c","t","]">>

(***************************************************************************)
(* atob: forgiving-base64 decode to a binary string (its char codes)       *)
(***************************************************************************)
B64Chars == <<"A","B","C","D","E","F","G","H","I","J","K","L","M","N","O","P","Q","R","S","T","U","V","W","X","Y","Z",
              "a","b","c","d","e","f","g","h","i","j","k","l","m","n","o","p","q","r","s","t","u","v","w","x","y","z",
              "0","1","2","3","4","5","6","7","8","9","+","/">>

RECURSIVE DecodeSextets(_)
DecodeSextets(v) ==
    IF Len(v) >= 4
    THEN LET n == v[1] * 262144 + v[2] * 4096 + v[3] * 64 + v[4]
         IN  <<n \div 65536, (n \div 256) % 256, n % 256>> \o DecodeSextets(SubSeq(v, 5, Len(v)))
    ELSE IF Len(v) = 3
    THEN LET n == (v[1] * 4096 + v[2] * 64 + v[3]) \div 4
         IN  <<n \div 256, n % 256>>
    ELSE IF Len(v) = 2 THEN <<(v[1] * 64 + v[2]) \div 16>>
    ELSE <<>>

\* [ok |-> TRUE, v |-> char codes], or [ok |-> FALSE] for an InvalidCharacterError
atob(data) ==
    LET d0 == SelectSeq(data, LAMBDA c : ~IsWs(c))
        d1 == IF Len(d0) > 0 /\ Len(d0) % 4 = 0
              THEN (IF endsWith(d0, <<"=", "=">>) THEN SubSeq(d0, 1, Len(d0) - 2)
                    ELSE IF endsWith(d0, <<"=">>) THEN SubSeq(d0, 1, Len(d0) - 1)
                    ELSE d0)
              ELSE d0
    IN  IF Len(d1) % 4 = 1 \/ (\E i \in 1..Len(d1) : ~IsIn(B64Chars, d1[i]))
        THEN [ok |-> FALSE]
        ELSE [ok |-> TRUE, v |-> DecodeSextets([i \in 1..Len(d1) |-> IndexOf(B64Chars, d1[i]) - 1])]

\* new Uint8Array(n) filled with bytes[i] = binaryStr.charCodeAt(i)
Uint8ArrayFrom(binaryStr) == [i \in 1..Len(binaryStr) |-> binaryStr[i] % 256]

(***************************************************************************)
(* MIME type detection, one definition per deployment file                 *)
(***************************************************************************)
mimeTypeProxy(filename) ==
    LET lowerFilename == toLowerCase(filename)
    IN  IF endsWith(lowerFilename, X_jpg) \/ endsWith(lowerFilename, X_jpeg) THEN S_jpeg
        ELSE IF endsWith(lowerFilename, X_webp) THEN S_webp
        ELSE IF endsWith(lowerFilename, X_gif) THEN S_gif
        ELSE S_png

mimeTypeUpload(filename) ==
    LET lowerFilename == toLowerCase(filename)
    IN  IF endsWith(lowerFilename, X_jpg) \/ endsWith(lowerFilename, X_jpeg) THEN S_jpeg
        ELSE IF endsWith(lowerFilename, X_webp) THEN S_webp
        ELSE IF endsWith(lowerFilename, X_gif) THEN S_gif
        ELSE S_png

\* variant: the filename is matched without lower-casing it
mimeTypeEdge_caseSensitive(filename) ==
    IF endsWith(filename, X_jpg) \/ endsWith(filename, X_jpeg) THEN S_jpeg
    ELSE IF endsWith(filename, X_webp) THEN S_webp
    ELSE IF endsWith(filename, X_gif) THEN S_gif
    ELSE S_png

mimeTypeEdge(filename) ==
    LET lowerFilename == toLowerCase(filename)
    IN  IF endsWith(lowerFilename, X_jpg) \/ endsWith(lowerFilename, X_jpeg) THEN S_jpeg
        ELSE IF endsWith(lowerFilename, X_webp) THEN S_webp
        ELSE IF endsWith(lowerFilename, X_gif) THEN S_gif
        ELSE S_png

\* the three deployment files
Deployments == {"cf-worker-proxy", "cf-worker-upload", "supabase-edge-proxy"}

mimeType(dep, filename) ==
    CASE dep = "cf-worker-proxy" -> mimeTypeProxy(filename)
      [] dep = "cf-worker-upload" -> mimeTypeUpload(filename)
      [] dep = "supabase-edge-proxy" -> mimeTypeEdge(filename)

(***************************************************************************)
(* Responses                                                               *)
(***************************************************************************)
NoResponse == [kind |-> "none"]
NullBody == [kind |-> "null"]
TextBody(s) == [kind |-> "text", text |-> s]
Header(k, v) == [k |-> k, v |-> v]

\* statuses with which the Response constructor accepts no body
NullBodyStatuses == {101, 204, 205, 304}

\* new Response(body, {status, headers}): [ok |-> TRUE, r |-> response], or the
\* error it throws (RangeError for a status outside 200..599, TypeError for a
\* body with a null-body status)
NewResponse(body, status, headers) ==
    IF status < 200 \/ status > 599 THEN [ok |-> FALSE, err |-> "RangeError"]
    ELSE IF body.kind # "null" /\ status \in NullBodyStatuses
    THEN [ok |-> FALSE, err |-> "TypeError"]
    ELSE [ok |-> TRUE,
          r |-> [kind |-> "response", status |-> status, headers |-> headers, body |-> body]]

corsHeaders ==
    <<Header("Access-Control-Allow-Origin", "*"),
      Header("Access-Control-Allow-Methods", "GET, POST, OPTIONS"),
      Header("Access-Control-Allow-Headers", "Content-Type, Authorization"),
      Header("Access-Control-Max-Age", "86400")>>

\* handleCORS is the same in the three files: no body, no status, the four CORS headers
handleCORS == NewResponse(NullBody, 200, corsHeaders)

\* jsonResponse of cf-worker-proxy.js and cf-worker-upload.js
jsonResponseWorker(data, status) ==
    NewResponse(TextBody(JSONstringify(data)), status,
                <<Header("Content-Type", "application/json"),
                  Header("Access-Control-Allow-Origin", "*")>>)

\* jsonResponse of supabase-edge-proxy.ts
jsonResponseEdge(data, status) ==
    NewResponse(TextBody(JSONstringify(data)), status,
                <<Header("Content-Type", "application/json")>> \o corsHeaders)

jsonResponse(dep, data, status) ==
    IF dep = "supabase-edge-proxy" THEN jsonResponseEdge(data, status)
    ELSE jsonResponseWorker(data, status)

(***************************************************************************)
(* Routing (the exported fetch handler / the serve callback)               *)
(***************************************************************************)
\* cf-worker-proxy.js
routeProxyWorker(method, pathname) ==
    IF method = "OPTIONS" THEN "cors"
    ELSE IF pathname = P_proxy /\ method = "POST" THEN "proxy"
    ELSE IF pathname = P_upload /\ method = "POST" THEN "upload"
    ELSE IF pathname = P_health THEN "health"
    ELSE "notfound"

\* cf-worker-upload.js
routeUploadWorker(method, pathname) ==
    IF method = "OPTIONS" THEN "cors"
    ELSE IF pathname = P_upload /\ method = "POST" THEN "upload"
    ELSE IF pathname = P_health THEN "health"
    ELSE "notfound"

\* supabase-edge-proxy.ts
routeEdge(method, pathname) ==
    IF method = "OPTIONS" THEN "cors"
    ELSE IF endsWith(pathname, P_proxy) /\ method = "POST" THEN "proxy"
    ELSE IF endsWith(pathname, P_upload) /\ method = "POST" THEN "upload"
    ELSE IF endsWith(pathname, P_health) THEN "health"
    ELSE "notfound"

route(dep, method, pathname) ==
    CASE dep = "cf-worker-proxy" -> routeProxyWorker(method, pathname)
      [] dep = "cf-worker-upload" -> routeUploadWorker(method, pathname)
      [] dep = "supabase-edge-proxy" -> routeEdge(method, pathname)

healthData(ts) == Obj(<<Prop(K_status, Str(S_ok)), Prop(K_timestamp, Str(ts))>>)
notFoundData == Obj(<<Prop(K_error, Str(S_NotFound))>>)

\* the two inline responses of the Cloudflare workers carry Content-Type only
healthResponseWorker(ts) ==
    NewResponse(TextBody(JSONstringify(healthData(ts))), 200,
                <<Header("Content-Type", "application/json")>>)

notFoundResponseWorker ==
    NewResponse(TextBody(JSONstringify(notFoundData)), 404,
                <<Header("Content-Type", "application/json")>>)

\* the edge function answers both through jsonResponse
healthResponseEdge(ts) == jsonResponseEdge(healthData(ts), 200)
notFoundResponseEdge == jsonResponseEdge(notFoundData, 404)

healthResponse(dep, ts) ==
    IF dep = "supabase-edge-proxy" THEN healthResponseEdge(ts) ELSE healthResponseWorker(ts)

notFoundResponse(dep) ==
    IF dep = "supabase-edge-proxy" THEN notFoundResponseEdge ELSE notFoundResponseWorker

(***************************************************************************)
(* Outcomes of the try block of a handler                                   *)
(***************************************************************************)
Return(res) == [kind |-> "return", res |-> res]
Throw(err) == [kind |-> "throw", err |-> err]
Call(c) == [kind |-> "call", call |-> c]

NoBody == [kind |-> "none"]
FormBody(parts) == [kind |-> "form", parts |-> parts]

\* error.message is the runtime's text for the error; it is kept abstract as
\* a string made of the error's name
errorMessage(err) == Str(<<err>>)

(***************************************************************************)
(* handleProxy                                                             *)
(***************************************************************************)
\* variant: the validation forgets url
proxyFieldsMissing_methodOnly(method, url) == ~Truthy(method)

\* if (!method || !url)
proxyFieldsMissing(method, url) == ~Truthy(method) \/ ~Truthy(url)

\* from `await request.json()` up to the call of fetch
handleProxyPrepare(dep, json) ==
    IF ~json.ok THEN Throw("SyntaxError")
    ELSE IF json.v.t \in {"null", "undefined"} THEN Throw("TypeError")
    ELSE
    LET data == json.v
        method == Get(data, K_method)
        url == Get(data, K_url)
        headers == Get(data, K_headers)
        body == Get(data, K_body)
    IN  IF proxyFieldsMissing(method, url)
        THEN Return(jsonResponse(dep, Obj(<<Prop(K_error, Str(S_MissingProxy))>>), 400))
        ELSE IF method.t # "str" THEN Throw("TypeError")
        ELSE
        LET fetchOptions == [method |-> toUpperCase(method.s),
                             headers |-> IF Truthy(headers) THEN headers ELSE Obj(<<>>)]
        IN  IF toUpperCase(method.s) = S_POST /\ Truthy(body)
            THEN IF fetchOptions.headers.t # "obj"
                 THEN Throw("TypeError")
                 ELSE Call([url |-> url,
                            method |-> fetchOptions.method,
                            headers |-> IF ~Truthy(Get(fetchOptions.headers, S_ContentType))
                                        THEN Obj(Put(fetchOptions.headers.o, S_ContentType,
                                                     Str(S_applicationJson)))
                                        ELSE fetchOptions.headers,
                            body |-> TextBody(JSONstringify(body))])
            ELSE Call([url |-> url,
                       method |-> fetchOptions.method,
                       headers |-> fetchOptions.headers,
                       body |-> NoBody])

\* variant: the catch block forgets the status, so jsonResponse defaults to 200
catchProxy_defaultStatus(dep, err) ==
    jsonResponse(dep, Obj(<<Prop(K_error, Str(S_ProxyFailed)),
                            Prop(K_message, errorMessage(err))>>), 200)

catchProxy(dep, err) ==
    jsonResponse(dep, Obj(<<Prop(K_error, Str(S_ProxyFailed)),
                            Prop(K_message, errorMessage(err))>>), 500)

(***************************************************************************)
(* handleUpload                                                            *)
(***************************************************************************)
\* if (!image_data || !filename || !token || !target_url)
uploadFieldsMissing(image_data, filename, token, target_url) ==
    ~Truthy(image_data) \/ ~Truthy(filename) \/ ~Truthy(token) \/ ~Truthy(target_url)

\* variant: a Content-Type header is set by hand next to the two headers
uploadHeaders_withContentType(token) ==
    Obj(<<Prop(S_Authorization, Str(S_Bearer \o ToStr(token))),
          Prop(S_UserAgent, Str(S_SoraAgent)),
          Prop(S_ContentType, Str(<<"m","u","l","t","i","p","a","r","t","/","f","o","r","m","-","d","a","t","a">>))>>)

\* the headers of the upload call
uploadHeaders(token) ==
    Obj(<<Prop(S_Authorization, Str(S_Bearer \o ToStr(token))),
          Prop(S_UserAgent, Str(S_SoraAgent))>>)

\* the FormData of the upload call: its entries in the order appended
uploadFormData(bytes, type, filename) ==
    <<[name |-> "file", kind |-> "file", bytes |-> bytes, type |-> type, filename |-> filename],
      [name |-> "file_name", kind |-> "text", value |-> filename]>>

\* from `await request.json()` up to the call of fetch
handleUploadPrepare(dep, json) ==
    IF ~json.ok THEN Throw("SyntaxError")
    ELSE IF json.v.t \in {"null", "undefined"} THEN Throw("TypeError")
    ELSE
    LET data == json.v
        image_data == Get(data, K_image_data)
        filename == Get(data, K_filename)
        token == Get(data, K_token)
        target_url == Get(data, K_target_url)
    IN  IF uploadFieldsMissing(image_data, filename, token, target_url)
        THEN Return(jsonResponse(dep, Obj(<<Prop(K_error, Str(S_MissingUpload))>>), 400))
        ELSE
        LET binaryStr == atob(ToStr(image_data))
        IN  IF ~binaryStr.ok THEN Throw("InvalidCharacterError")
            ELSE IF filename.t # "str" THEN Throw("TypeError")
            ELSE
            LET bytes == Uint8ArrayFrom(binaryStr.v)
                formData == uploadFormData(bytes, mimeType(dep, filename.s), filename.s)
            IN  Call([url |-> target_url,
                      method |-> S_POST,
                      headers |-> uploadHeaders(token),
                      body |-> FormBody(formData)])

catchUpload(dep, err) ==
    jsonResponse(dep, Obj(<<Prop(K_error, Str(S_UploadFailed)),
                            Prop(K_message, errorMessage(err))>>), 500)

(***************************************************************************)
(* The response normalizer shared by the two handlers                      *)
(***************************************************************************)
responseData(responseText) ==
    LET parsed == JSONparse(responseText)
    IN  IF parsed.ok THEN parsed.v
        ELSE Obj(<<Prop(K_raw_response, Str(responseText))>>)

(***************************************************************************)
(* The runtime's fetch: it rejects a call whose URL is not absolute or     *)
(* whose headers are not a record, without reaching the network            *)
(***************************************************************************)
IsAbsoluteUrl(u) ==
    /\ u.t = "str"
    /\ \/ StartsAt(u.s, 1, <<"h","t","t","p","s",":","/","/">>)
       \/ StartsAt(u.s, 1, <<"h","t","t","p",":","/","/">>)

FetchArgsValid(call) == IsAbsoluteUrl(call.url) /\ call.headers.t = "obj"

(***************************************************************************)
(* Inputs: inbound requests, envelopes, upstream answers                   *)
(***************************************************************************)
\* an object literal with the undefined members left out
ObjOf(props) == Obj(SelectSeq(props, LAMBDA p : p.v.t # "undefined"))

U_echo == Str(<<"h","t","t","p","s",":","/","/","e",".","t","/","e","c","h","o">>)
U_up == Str(<<"h","t","t","p","s",":","/","/","e",".","t","/","u","p">>)
U_relative == Str(<<"/","e","c","h","o">>)
V_textPlain == Str(<<"t","e","x","t","/","p","l","a","i","n">>)

HttpMethods == {"OPTIONS", "POST", "GET"}
Pathnames ==
    {P_proxy, P_upload, P_health, <<"/">>,
     <<"/","f">> \o P_proxy, <<"/","f">> \o P_upload, <<"/","f">> \o P_health}
Timestamps == {<<"2026-01-01T00:00:00.000Z">>}

MethodInputs ==
    {Undefined, Str(<<>>), Str(S_POST), Str(<<"p","o","s","t">>), Str(<<"P","o","s","t">>),
     Str(<<"G","E","T">>), Str(<<"p","u","t">>), Num(5)}
UrlInputs == {Undefined, Str(<<>>), U_echo, U_relative}
HeaderInputs ==
    {Undefined,
     Obj(<<>>),
     Obj(<<Prop(S_ContentType, V_textPlain)>>),
     Obj(<<Prop(toLowerCase(S_ContentType), V_textPlain)>>),
     Obj(<<Prop(S_Authorization, Str(S_Bearer \o <<"t">>))>>),
     Str(<<"a","b","c">>)}
BodyInputs ==
    {Undefined, Null,
     Obj(<<Prop(<<"a">>, Num(1))>>), Arr(<<Num(1), Bool(TRUE)>>),
     Str(<<"h","i">>), Str(<<>>), Num(7), Num(0), Bool(TRUE), Bool(FALSE)}

\* what request.json() settles to: a SyntaxError or the parsed envelope
JsonFailure == [ok |-> FALSE]
JsonValue(v) == [ok |-> TRUE, v |-> v]
OddEnvelopes == {JsonFailure, JsonValue(Null), JsonValue(Num(5)), JsonValue(Arr(<<>>))}

ProxyEnvelopes ==
    OddEnvelopes \cup
    {JsonValue(ObjOf(<<Prop(K_method, m), Prop(K_url, u), Prop(K_headers, h), Prop(K_body, b)>>)) :
        m \in MethodInputs, u \in UrlInputs, h \in HeaderInputs, b \in BodyInputs}

ImageInputs ==
    {Undefined, Str(<<>>),
     Str(<<"Q","U","J","D">>), Str(<<"Q","Q","=","=">>), Str(<<"Q","U","I","=">>),
     Str(<<"/","w">>), Str(<<"Q","U"," ","J","D","\n">>),
     Str(<<"Q">>), Str(<<"Q","!","=","=">>), Num(1234)}
FilenameInputs ==
    {Undefined, Str(<<>>),
     Str(<<"p",".","J","P","G">>), Str(<<"p",".","j","p","e","g">>),
     Str(<<"i",".","w","e","b","p">>), Str(<<"a",".","G","i","f">>),
     Str(<<"p",".","b","m","p">>), Str(<<"x",".","p","n","g">>),
     Str(<<"j","p","g">>), Str(<<"a",".","j","p","g",".","b","m","p">>),
     Str(<<"a",".","g","i","f",".","w","e","b","p">>), Num(5)}
TokenInputs == {Undefined, Str(<<>>), Str(<<"t","o","k">>), Num(9)}
TargetInputs == {Undefined, Str(<<>>), U_up, U_relative}

UploadEnvelopes ==
    OddEnvelopes \cup
    {JsonValue(ObjOf(<<Prop(K_image_data, i), Prop(K_filename, f), Prop(K_token, k),
                       Prop(K_target_url, u)>>)) :
        i \in ImageInputs, f \in FilenameInputs, k \in TokenInputs, u \in TargetInputs}

UpstreamStatuses == {200, 201, 204, 304, 404, 429, 500}

UpstreamTexts ==
    {<<>>,
     <<"h","e","l","l","o">>,
     <<"{","\"","a","\"",":","1","}">>,
     <<" ","{"," ","\"","a","\""," ",":"," ","1"," ","}","\n">>,
     <<"{","\"","e","r","r","o","r","\"",":","\"","r","a","t","e"," ","l","i","m","i","t","e","d","\"","}">>,
     <<"{","\"","a","\"",":">>,
     <<"[","1",","," ","\"","x","\\","\"","\"","]">>,
     <<"\"","h","i","\"">>,
     <<"-","4","2">>,
     <<"t","r","u","e">>,
     <<"n","u","l","l">>}

\* a response with a null-body status has an empty body
TextsFor(status) == IF status \in NullBodyStatuses THEN {<<>>} ELSE UpstreamTexts

(***************************************************************************)
(* State                                                                   *)
(***************************************************************************)
VARIABLES
    deployment,     \* which of the three files is deployed
    pc,             \* "idle", "json", "fetch", "text", "done": where the handler is
    request,        \* the inbound request: method, pathname, route, json
    calls,          \* the upstream fetch calls issued for the current request
    upstreamStatus, \* response.status once fetch has resolved, 0 before
    responseText,   \* what response.text() resolved to
    response,       \* the response returned for the current request
    rejected        \* the handler's promise rejected instead of returning

vars == <<deployment, pc, request, calls, upstreamStatus, responseText, response, rejected>>

NoRequest == [method |-> "", pathname |-> <<>>, route |-> "none", json |-> JsonFailure]
NoText == [ok |-> FALSE]

Init ==
    /\ deployment \in Deployments
    /\ pc = "idle"
    /\ request = NoRequest
    /\ calls = <<>>
    /\ upstreamStatus = 0
    /\ responseText = NoText
    /\ response = NoResponse
    /\ rejected = FALSE

\* the handler returns out.res, or what its catch block makes of the error
Finish(out) ==
    LET failed == out.kind = "throw" \/ ~out.res.ok
        err == IF out.kind = "throw" THEN out.err ELSE out.res.err
        caught == IF request.route = "proxy" THEN catchProxy(deployment, err)
                  ELSE catchUpload(deployment, err)
    IN  /\ pc' = "done"
        /\ response' = IF ~failed THEN out.res.r
                       ELSE IF caught.ok THEN caught.r ELSE NoResponse
        /\ rejected' = (failed /\ ~caught.ok)

\* a route that answers without a handler
Answer(res) ==
    /\ pc' = "done"
    /\ response' = IF res.ok THEN res.r ELSE NoResponse
    /\ rejected' = ~res.ok

EnvelopesFor(r) ==
    CASE r = "proxy" -> ProxyEnvelopes
      [] r = "upload" -> UploadEnvelopes
      [] OTHER -> {JsonFailure}

\* the exported fetch(request, env, ctx) / the serve callback: a request
\* arrives and is routed
fetch ==
    /\ pc = "idle"
    /\ \E m \in HttpMethods, p \in Pathnames :
         LET r == route(deployment, m, p)
         IN  /\ \E j \in EnvelopesFor(r) :
                   request' = [method |-> m, pathname |-> p, route |-> r, json |-> j]
             /\ calls' = <<>>
             /\ upstreamStatus' = 0
             /\ responseText' = NoText
             /\ CASE r = "cors" -> Answer(handleCORS)
                  [] r = "health" -> \E ts \in Timestamps : Answer(healthResponse(deployment, ts))
                  [] r = "notfound" -> Answer(notFoundResponse(deployment))
                  [] OTHER -> pc' = "json" /\ response' = NoResponse /\ rejected' = FALSE
    /\ UNCHANGED deployment

\* variant: the call is issued twice (a retry that does not wait for the first)
issueFetch_twice(call) ==
    /\ calls' = Append(Append(calls, call), call)
    /\ pc' = "fetch"

\* `fetch(url, options)` is called: the call leaves and the handler awaits it
issueFetch(call) ==
    /\ calls' = Append(calls, call)
    /\ pc' = "fetch"

\* handleProxy from request.json() settling up to the call of fetch
handleProxy ==
    /\ pc = "json"
    /\ request.route = "proxy"
    /\ LET out == handleProxyPrepare(deployment, request.json)
       IN  IF out.kind = "call"
           THEN /\ issueFetch(out.call)
                /\ UNCHANGED <<response, rejected>>
           ELSE /\ Finish(out)
                /\ UNCHANGED calls
    /\ UNCHANGED <<deployment, request, upstreamStatus, responseText>>

\* handleUpload from request.json() settling up to the call of fetch
handleUpload ==
    /\ pc = "json"
    /\ request.route = "upload"
    /\ LET out == handleUploadPrepare(deployment, request.json)
       IN  IF out.kind = "call"
           THEN /\ issueFetch(out.call)
                /\ UNCHANGED <<response, rejected>>
           ELSE /\ Finish(out)
                /\ UNCHANGED calls
    /\ UNCHANGED <<deployment, request, upstreamStatus, responseText>>

\* `await fetch(...)` settles: the promise resolves with a status, or rejects
fetchSettles ==
    /\ pc = "fetch"
    /\ \/ /\ FetchArgsValid(calls[Len(calls)])
          /\ \E st \in UpstreamStatuses : upstreamStatus' = st
          /\ pc' = "text"
          /\ UNCHANGED <<response, rejected>>
       \/ /\ Finish(Throw(IF FetchArgsValid(calls[Len(calls)])
                                 THEN "NetworkError" ELSE "TypeError"))
          /\ UNCHANGED upstreamStatus
    /\ UNCHANGED <<deployment, request, calls, responseText>>

\* `await response.text()` settles, the text is normalized and returned
textSettles ==
    /\ pc = "text"
    /\ \/ \E text \in TextsFor(upstreamStatus) :
             /\ responseText' = [ok |-> TRUE, s |-> text]
             /\ Finish(Return(jsonResponse(deployment, responseData(text), upstreamStatus)))
       \/ /\ Finish(Throw("NetworkError"))
          /\ UNCHANGED responseText
    /\ UNCHANGED <<deployment, request, calls, upstreamStatus>>

\* the returned response has been handed to the runtime: nothing of the
\* request outlives it
requestEnds ==
    /\ pc = "done"
    /\ pc' = "idle"
    /\ request' = NoRequest
    /\ calls' = <<>>
    /\ upstreamStatus' = 0
    /\ responseText' = NoText
    /\ response' = NoResponse
    /\ rejected' = FALSE
    /\ UNCHANGED deployment

handleProxyFetched == request.route = "proxy" /\ fetchSettles
handleProxyRead == request.route = "proxy" /\ textSettles
handleUploadFetched == request.route = "upload" /\ fetchSettles
handleUploadRead == request.route = "upload" /\ textSettles

Next ==
    \/ fetch
    \/ handleProxy
    \/ handleProxyFetched
    \/ handleProxyRead
    \/ handleUpload
    \/ handleUploadFetched
    \/ handleUploadRead
    \/ requestEnds

Spec == Init /\ [][Next]_vars

(***************************************************************************)
(* Vocabulary of the properties                                            *)
(***************************************************************************)
Envelope == request.json
IsObjectEnvelope == Envelope.ok /\ Envelope.v.t = "obj"
Field(k) == Get(Envelope.v, k)
InHandler == request.route \in {"proxy", "upload"}

\* a field that is missing or empty
Blank(v) == v.t \in {"undefined", "null"} \/ (v.t = "str" /\ v.s = <<>>)

ProxyFieldBlank == Blank(Field(K_method)) \/ Blank(Field(K_url))
UploadFieldBlank ==
    \/ Blank(Field(K_image_data))
    \/ Blank(Field(K_filename))
    \/ Blank(Field(K_token))
    \/ Blank(Field(K_target_url))

\* the body {"error":"<msg>"}
ErrorBody(msg) ==
    TextBody(<<"{","\"","e","r","r","o","r","\"",":","\"">> \o msg \o <<"\"","}">>)

\* the error member of the JSON body of the response
ErrorField == Get(JSONparse(response.body.text).v, K_error)

HasHeader(r, k, v) == \E i \in 1..Len(r.headers) : r.headers[i] = Header(k, v)

\* standard base64 text, whitespace aside: alphabet characters, at most two
\* trailing "=" closing a multiple of four, never one character left over
Base64Digits(s) ==
    LET d == SelectSeq(s, LAMBDA c : ~IsWs(c))
        n == Len(d)
        pad == IF n > 0 /\ n % 4 = 0
               THEN (IF n >= 2 /\ d[n] = "=" /\ d[n - 1] = "=" THEN 2
                     ELSE IF d[n] = "=" THEN 1 ELSE 0)
               ELSE 0
    IN  SubSeq(d, 1, n - pad)

ValidBase64(s) ==
    /\ \A i \in 1..Len(Base64Digits(s)) : IsIn(B64Chars, Base64Digits(s)[i])
    /\ Len(Base64Digits(s)) % 4 # 1

RECURSIVE Base64Encode(_)
\* the base64 digits of a byte sequence, without padding
Base64Encode(b) ==
    IF Len(b) >= 3
    THEN LET n == b[1] * 65536 + b[2] * 256 + b[3]
         IN  <<B64Chars[(n \div 262144) + 1], B64Chars[((n \div 4096) % 64) + 1],
               B64Chars[((n \div 64) % 64) + 1], B64Chars[(n % 64) + 1]>>
             \o Base64Encode(SubSeq(b, 4, Len(b)))
    ELSE IF Len(b) = 2
    THEN LET n == (b[1] * 256 + b[2]) * 4
         IN  <<B64Chars[(n \div 4096) + 1], B64Chars[((n \div 64) % 64) + 1],
               B64Chars[(n % 64) + 1]>>
    ELSE IF Len(b) = 1
    THEN LET n == b[1] * 16
         IN  <<B64Chars[(n \div 64) + 1], B64Chars[(n % 64) + 1]>>
    ELSE <<>>

\* the part of a lower-cased filename from its last "." on, empty without one
RECURSIVE LastDotSuffix(_, _)
LastDotSuffix(s, i) ==
    IF i = 0 THEN <<>>
    ELSE IF s[i] = "." THEN SubSeq(s, i, Len(s))
    ELSE LastDotSuffix(s, i - 1)

Extension(filename) == LastDotSuffix(toLowerCase(filename), Len(filename))

\* the MIME table of the upload relay
MimeTable(ext) ==
    IF ext \in {<<".","j","p","g">>, <<".","j","p","e","g">>} THEN <<"i","m","a","g","e","/","j","p","e","g">>
    ELSE IF ext = <<".","w","e","b","p">> THEN <<"i","m","a","g","e","/","w","e","b","p">>
    ELSE IF ext = <<".","g","i","f">> THEN <<"i","m","a","g","e","/","g","i","f">>
    ELSE <<"i","m","a","g","e","/","p","n","g">>

\* the values of the Content-Type entries of a headers object, in any spelling
ContentTypes(h) ==
    IF h.t # "obj" THEN <<>>
    ELSE LET sel == SelectSeq(h.o, LAMBDA p : toLowerCase(p.k) = toLowerCase(S_ContentType))
         IN  [i \in 1..Len(sel) |-> sel[i].v]

(***************************************************************************)
(* C1                                                                      *)
(***************************************************************************)
\* C1: whenever the upstream call completed (fetch resolved and its text was
\* read), the response of handleProxy or handleUpload has the upstream's
\* status, for every status including 204 and 304.
C1_StatusPreserved ==
    (pc = "done" /\ InHandler /\ upstreamStatus # 0 /\ responseText.ok)
        => (response.kind = "response" /\ response.status = upstreamStatus)

(***************************************************************************)
(* C2                                                                      *)
(***************************************************************************)
\* C2: an envelope with a missing or empty required field is answered with
\* status 400 and the operation's fixed message, and no upstream fetch is
\* issued at any point of handling it.
C2_ValidationNeverReachesNetwork ==
    /\ (request.route = "proxy" /\ IsObjectEnvelope /\ ProxyFieldBlank)
          => /\ calls = <<>>
             /\ pc \in {"json", "done"}
             /\ pc = "done" => /\ response.kind = "response"
                               /\ response.status = 400
                               /\ response.body = ErrorBody(S_MissingProxy)
    /\ (request.route = "upload" /\ IsObjectEnvelope /\ UploadFieldBlank)
          => /\ calls = <<>>
             /\ pc \in {"json", "done"}
             /\ pc = "done" => /\ response.kind = "response"
                               /\ response.status = 400
                               /\ response.body = ErrorBody(S_MissingUpload)

C2_Witness ==
    /\ pc = "done"
    /\ request.route = "proxy"
    /\ IsObjectEnvelope
    /\ Field(K_method) = Str(S_POST)
    /\ Blank(Field(K_url))
    /\ response.status = 400

(***************************************************************************)
(* C3                                                                      *)
(***************************************************************************)
\* C3: every response, on every route and in each of the three files, carries
\* Content-Type: application/json and Access-Control-Allow-Origin: *.
C3_HeadersOnEveryResponse ==
    (pc = "done" /\ response.kind = "response")
        => /\ HasHeader(response, "Content-Type", "application/json")
           /\ HasHeader(response, "Access-Control-Allow-Origin", "*")

(***************************************************************************)
(* C4                                                                      *)
(***************************************************************************)
\* a failure other than a validation failure happened while handling the request
HandlerFailed ==
    \/ ~Envelope.ok
    \/ Envelope.v.t = "null"
    \/ calls # <<>> /\ upstreamStatus = 0
    \/ upstreamStatus # 0 /\ ~responseText.ok
    \/ responseText.ok /\ upstreamStatus \in {204, 304}
    \/ /\ calls = <<>>
       /\ IsObjectEnvelope
       /\ IF request.route = "proxy" THEN ~ProxyFieldBlank ELSE ~UploadFieldBlank

\* C4: the handlers never reject; every failure that is not a validation
\* failure ends in a response with status 500 whose error member is "Proxy
\* request failed" or "Upload failed"; malformed base64 issues no upstream call.
C4_FailuresCaught ==
    /\ ~rejected
    /\ pc = "done" => response.kind = "response"
    /\ (pc = "done" /\ request.route = "proxy" /\ HandlerFailed)
          => (response.status = 500 /\ ErrorField = Str(S_ProxyFailed))
    /\ (pc = "done" /\ request.route = "upload" /\ HandlerFailed)
          => (response.status = 500 /\ ErrorField = Str(S_UploadFailed))
    /\ (request.route = "upload" /\ IsObjectEnvelope /\ Field(K_image_data).t = "str"
            /\ ~ValidBase64(Field(K_image_data).s))
          => calls = <<>>

C4_Witness ==
    /\ pc = "done"
    /\ request.route = "proxy"
    /\ calls # <<>>
    /\ upstreamStatus = 0
    /\ response.status = 500

(***************************************************************************)
(* C5                                                                      *)
(***************************************************************************)
PassesValidation ==
    /\ IsObjectEnvelope
    /\ IF request.route = "proxy" THEN ~ProxyFieldBlank ELSE ~UploadFieldBlank

\* C5 as stated: at most one upstream fetch per request, and exactly one for
\* every request that passes field validation.
C5_ExactlyOneCallWhenValidated ==
    /\ Len(calls) <= 1
    /\ (pc = "done" /\ InHandler /\ PassesValidation) => Len(calls) = 1

\* the call can be built from the envelope: the fields have usable types and
\* image_data is base64
Buildable ==
    IF request.route = "proxy"
    THEN /\ Field(K_method).t = "str"
         /\ Field(K_headers).t \in {"undefined", "null", "obj"}
    ELSE /\ ValidBase64(ToStr(Field(K_image_data)))
         /\ Field(K_filename).t = "str"

\* C5 amended: at most one upstream fetch per request; exactly one for every
\* request that passes field validation and whose call can be built; none for
\* a request that passes validation and whose call cannot be built.
C5_SingleUpstreamCall ==
    /\ Len(calls) <= 1
    /\ (pc = "done" /\ InHandler /\ PassesValidation /\ Buildable) => Len(calls) = 1
    /\ (request.route = "upload" /\ PassesValidation /\ ~Buildable) => Len(calls) = 0

C5_Witness ==
    /\ pc = "done"
    /\ request.route = "upload"
    /\ PassesValidation
    /\ Buildable
    /\ Len(calls) = 1
    /\ response.status = 200

(***************************************************************************)
(* C6                                                                      *)
(***************************************************************************)
\* C6: a POST call with a body carries Content-Type: application/json when the
\* caller gave no Content-Type header in any spelling, and otherwise exactly
\* the caller's value and no second entry; without a body nothing is injected.
C6_ContentTypeInjection ==
    (request.route = "proxy" /\ calls # <<>>)
        => IF calls[1].body.kind = "text" /\ ContentTypes(Field(K_headers)) = <<>>
           THEN ContentTypes(calls[1].headers) = <<Str(S_applicationJson)>>
           ELSE ContentTypes(calls[1].headers) = ContentTypes(Field(K_headers))

(***************************************************************************)
(* C7                                                                      *)
(***************************************************************************)
\* C7: the outbound call carries a body exactly when the method is POST in
\* any letter case and the envelope supplies a body of any JSON type; the
\* body carried is the JSON text of the supplied value.
C7_BodyForwarding ==
    (request.route = "proxy" /\ calls # <<>>)
        => LET supplied == Field(K_body).t \notin {"undefined", "null"}
               post == toUpperCase(Field(K_method).s) = S_POST
           IN  IF post /\ supplied
               THEN calls[1].body = TextBody(JSONstringify(Field(K_body)))
               ELSE calls[1].body = NoBody

(***************************************************************************)
(* C8                                                                      *)
(***************************************************************************)
\* C8: the upload call is one POST to target_url with exactly the headers
\* Authorization: Bearer <token> and the fixed User-Agent, and a multipart
\* body of exactly two parts in order: the file part "file" (decoded bytes,
\* inferred MIME type, filename) and the text part "file_name" (filename).
C8_UploadCallShape ==
    (request.route = "upload" /\ calls # <<>>)
        => LET c == calls[1]
               f == Field(K_filename).s
               token == Field(K_token)
               bearer == <<"B","e","a","r","e","r"," ">>
                         \o (IF token.t = "str" THEN token.s ELSE NumToStr(token.n))
               agent == <<"S","o","r","a","/","1",".","2","0","2","6",".","0","0","7"," ",
                          "(","A","n","d","r","o","i","d"," ","1","5",";"," ",
                          "2","4","1","2","2","R","K","C","7","C",";"," ",
                          "b","u","i","l","d"," ","2","6","0","0","7","0","0",")">>
           IN  /\ Len(calls) = 1
               /\ c.method = <<"P","O","S","T">>
               /\ c.url = Field(K_target_url)
               /\ c.headers.t = "obj"
               /\ c.headers.o = <<Prop(<<"A","u","t","h","o","r","i","z","a","t","i","o","n">>, Str(bearer)),
                                  Prop(<<"U","s","e","r","-","A","g","e","n","t">>, Str(agent))>>
               /\ c.body.kind = "form"
               /\ Len(c.body.parts) = 2
               /\ c.body.parts[1].name = "file"
               /\ c.body.parts[1].kind = "file"
               /\ Base64Encode(c.body.parts[1].bytes) = Base64Digits(ToStr(Field(K_image_data)))
               /\ c.body.parts[1].type = MimeTable(Extension(f))
               /\ c.body.parts[1].filename = f
               /\ c.body.parts[2] = [name |-> "file_name", kind |-> "text", value |-> f]

C8_Witness ==
    /\ request.route = "upload"
    /\ calls # <<>>
    /\ Field(K_image_data) = Str(<<"Q","U","I","=">>)
    /\ calls[1].body.parts[1].bytes = <<65, 66>>
    /\ Field(K_filename) = Str(<<"x",".","p","n","g">>)

(***************************************************************************)
(* C9                                                                      *)
(***************************************************************************)
\* C9: the MIME type of the file part is decided by the lower-cased final
\* suffix of the filename: .jpg and .jpeg give image/jpeg, .webp image/webp,
\* .gif image/gif, anything else image/png; the three files agree.
C9_MimeInference ==
    (request.route = "upload" /\ IsObjectEnvelope /\ Field(K_filename).t = "str")
        => LET f == Field(K_filename).s
           IN  /\ mimeTypeProxy(f) = MimeTable(Extension(f))
               /\ mimeTypeUpload(f) = MimeTable(Extension(f))
               /\ mimeTypeEdge(f) = MimeTable(Extension(f))
               /\ calls # <<>> => calls[1].body.parts[1].type = MimeTable(Extension(f))

C9_Witness ==
    /\ request.route = "upload"
    /\ deployment = "supabase-edge-proxy"
    /\ calls # <<>>
    /\ Field(K_filename) = Str(<<"p",".","J","P","G">>)
    /\ calls[1].body.parts[1].type = <<"i","m","a","g","e","/","j","p","e","g">>

(***************************************************************************)
(* C10                                                                     *)
(***************************************************************************)
\* C10: for every upstream text T read, the body of the relay's response is
\* the JSON text of the value T parses to, or of {raw_response: T} when T does
\* not parse (malformed, empty, not JSON).
C10_Normalization ==
    (pc = "done" /\ InHandler /\ responseText.ok)
        => /\ response.kind = "response"
           /\ response.body =
                 TextBody(IF JSONparse(responseText.s).ok
                          THEN JSONstringify(JSONparse(responseText.s).v)
                          ELSE <<"{","\"","r","a","w","_","r","e","s","p","o","n","s","e","\"",":">>
                               \o Quote(responseText.s) \o <<"}">>)
====
